---- MODULE Spec2Model ----
(***************************************************************************)
(* json2relcsv: schema inference (schema.c) and CSV materialization        *)
(* (csv_generator.c) over a parsed JSON tree (ast.h).                      *)
(*                                                                         *)
(* A C string is a TLA+ string; a char* that may be NULL is a sequence of  *)
(* at most one string (<<>> is NULL).  An Object_Node is identified by its *)
(* place in the tree: the sequence of child positions leading to it from   *)
(* the root.  A file is the sequence of its lines, each line the text      *)
(* written before one "\n".  error is the last fatal message on stderr,    *)
(* ferror the names of the table files whose stream met a write error.     *)
(***************************************************************************)
EXTENDS Integers, Sequences, FiniteSets, TLC

VARIABLES doc, pc, run, tables, capacity, table_count, global_next_node_id,
          node_id, next, stack, diag, wi, files, prev_files, out_dir, ferror,
          error, calls

vars == <<doc, pc, run, tables, capacity, table_count, global_next_node_id,
          node_id, next, stack, diag, wi, files, prev_files, out_dir, ferror,
          error, calls>>

\* ------------------------------------------------------------------ bounds

\* Largest number of nodes (objects, arrays and scalars) of a generated tree.
MaxNodes == 4

\* ------------------------------------------------------- the value tree

\* Value_Node: the tag and the member of the union that the tag selects;
\* an object's pairs are keys[i], vals[i], an array's elements are vals[i].
Value(t, s, n, b, ks, vs) == [type |-> t, string_val |-> s, number_val |-> n,
                              boolean_val |-> b, keys |-> ks, vals |-> vs]

Str(s) == Value("VALUE_STRING", s, 0, FALSE, <<>>, <<>>)

Num(n) == Value("VALUE_NUMBER", "", n, FALSE, <<>>, <<>>)

Bool(b) == Value("VALUE_BOOLEAN", "", 0, b, <<>>, <<>>)

Null == Value("VALUE_NULL", "", 0, FALSE, <<>>, <<>>)

Obj(ks, vs) == Value("VALUE_OBJECT", "", 0, FALSE, ks, vs)

Arr(vs) == Value("VALUE_ARRAY", "", 0, FALSE, <<>>, vs)

\* Number of nodes of a value.
RECURSIVE Size(_)
Size(v) ==
    LET RECURSIVE Sum(_)
        Sum(i) == IF i > Len(v.vals) THEN 0 ELSE Size(v.vals[i]) + Sum(i + 1)
    IN 1 + Sum(1)

\* Field names and scalars of the generated trees.
GenKeys == {"a", "b"}

GenScalars == {Num(1), Str("x")}

\* Every value of at most n nodes, and every sequence of values of at most
\* n nodes in total.
RECURSIVE GenValues(_), GenForests(_)
GenValues(n) ==
    IF n < 1 THEN {}
    ELSE GenScalars
         \cup { Arr(f) : f \in GenForests(n - 1) }
         \cup UNION { { Obj(ks, f) : ks \in [1..Len(f) -> GenKeys] } :
                      f \in GenForests(n - 1) }

GenForests(n) ==
    {<<>>} \cup UNION { { <<v>> \o f : f \in GenForests(n - Size(v)) } :
                        v \in GenValues(n) }

\* ------------------------------------------------------- the input trees

\* {"name": "A", "tags": ["x", "y"]}
DocTags == Obj(<<"name", "tags">>, <<Str("A"), Arr(<<Str("x"), Str("y")>>)>>)

\* {"items": [{"a": 1}, {"a": 2}]}
DocItems == Obj(<<"items">>, <<Arr(<<Obj(<<"a">>, <<Num(1)>>), Obj(<<"a">>, <<Num(2)>>)>>)>>)

\* [{"b": [{"x": 1}, {"x": 2}]}, {"b": [{"x": 3}]}]
DocChildren ==
    Arr(<<Obj(<<"b">>, <<Arr(<<Obj(<<"x">>, <<Num(1)>>), Obj(<<"x">>, <<Num(2)>>)>>)>>),
          Obj(<<"b">>, <<Arr(<<Obj(<<"x">>, <<Num(3)>>)>>)>>)>>)

\* {"a": {"b": {"c": "deep", "t": [1, 2]}}}
DocNested ==
    Obj(<<"a">>, <<Obj(<<"b">>, <<Obj(<<"c", "t">>, <<Str("deep"), Arr(<<Num(1), Num(2)>>)>>)>>)>>)

\* [{"t": [1]}, {"t": [2, 3]}]
DocDupJunction ==
    Arr(<<Obj(<<"t">>, <<Arr(<<Num(1)>>)>>), Obj(<<"t">>, <<Arr(<<Num(2), Num(3)>>)>>)>>)

\* [{"a": 1}, {"b": 2}, {"a": 3, "b": 4}]
DocDrift ==
    Arr(<<Obj(<<"a">>, <<Num(1)>>), Obj(<<"b">>, <<Num(2)>>),
          Obj(<<"a", "b">>, <<Num(3), Num(4)>>)>>)

\* {"index": 1, "value": "v"}
DocIndexValue == Obj(<<"index", "value">>, <<Num(1), Str("v")>>)

\* {"m": [1, {"a": 1}], "n": [[{"a": 1}]], "o": [{"a": 1}, 2, [{"a": 3}], {"a": 4}]}
DocMixed ==
    Obj(<<"m", "n", "o">>,
        <<Arr(<<Num(1), Obj(<<"a">>, <<Num(1)>>)>>),
          Arr(<<Arr(<<Obj(<<"a">>, <<Num(1)>>)>>)>>),
          Arr(<<Obj(<<"a">>, <<Num(1)>>), Num(2), Arr(<<Obj(<<"a">>, <<Num(3)>>)>>),
                Obj(<<"a">>, <<Num(4)>>)>>)>>)

\* {"a_b": {"x": 1}, "a": {"b": [1]}}
DocClashObjectFirst ==
    Obj(<<"a_b", "a">>, <<Obj(<<"x">>, <<Num(1)>>), Obj(<<"b">>, <<Arr(<<Num(1)>>)>>)>>)

\* {"a": {"b": [1]}, "a_b": {"x": 1}}
DocClashJunctionFirst ==
    Obj(<<"a", "a_b">>, <<Obj(<<"b">>, <<Arr(<<Num(1)>>)>>), Obj(<<"x">>, <<Num(1)>>)>>)

\* {"t": true, "f": false, "n": null, "s": "say \"hi\"", "e": []}
DocScalars ==
    Obj(<<"t", "f", "n", "s", "e">>,
        <<Bool(TRUE), Bool(FALSE), Null, Str("say \"hi\""), Arr(<<>>)>>)

\* {"a,b": 1}
DocCommaKey == Obj(<<"a,b">>, <<Num(1)>>)

\* {"\"k\"": "v"}
DocQuoteKey == Obj(<<"\"k\"">>, <<Str("v")>>)

\* {"a": 1, "a": 2}
DocDupKey == Obj(<<"a", "a">>, <<Num(1), Num(2)>>)

\* [{"t": [1]}, {"t": [2]}, {"t": [{"a": 1}]}]
DocJunctionsThenObject ==
    Arr(<<Obj(<<"t">>, <<Arr(<<Num(1)>>)>>), Obj(<<"t">>, <<Arr(<<Num(2)>>)>>),
          Obj(<<"t">>, <<Arr(<<Obj(<<"a">>, <<Num(1)>>)>>)>>)>>)

\* {"a": {"b": {"c": 1}, "t": [1], "o": [{"d": 1}]}}
DocNaming ==
    Obj(<<"a">>,
        <<Obj(<<"b", "t", "o">>,
              <<Obj(<<"c">>, <<Num(1)>>), Arr(<<Num(1)>>),
                Arr(<<Obj(<<"d">>, <<Num(1)>>)>>)>>)>>)

\* {"u": [2], "a": {"t": [1]}}
DocTwoJunctions ==
    Obj(<<"u", "a">>, <<Arr(<<Num(2)>>), Obj(<<"t">>, <<Arr(<<Num(1)>>)>>)>>)

\* {"_id": "v", "seq": "s"}
DocIdSeq == Obj(<<"_id", "seq">>, <<Str("v"), Str("s")>>)

\* {"a": {"b_c": {}}, "a_b": {"c": {}}}
DocPathClash ==
    Obj(<<"a", "a_b">>, <<Obj(<<"b_c">>, <<Obj(<<>>, <<>>)>>), Obj(<<"c">>, <<Obj(<<>>, <<>>)>>)>>)

\* {"root": {"x": 1}}
DocRootField == Obj(<<"root">>, <<Obj(<<"x">>, <<Num(1)>>)>>)

\* {"id": 7}
DocIdField == Obj(<<"id">>, <<Num(7)>>)

\* {"p": {"c": {"p_id": 1}}}
DocFkField == Obj(<<"p">>, <<Obj(<<"c">>, <<Obj(<<"p_id">>, <<Num(1)>>)>>)>>)

\* true and null, as roots
DocTrue == Bool(TRUE)

DocNull == Null

NamedDocs == {DocTags, DocItems, DocChildren, DocNested, DocDupJunction, DocDrift,
              DocIndexValue, DocMixed, DocClashObjectFirst, DocClashJunctionFirst,
              DocScalars, DocTrue, DocNull, DocCommaKey, DocQuoteKey, DocDupKey,
              DocJunctionsThenObject, DocNaming, DocTwoJunctions, DocIdSeq,
              DocPathClash, DocRootField, DocIdField, DocFkField}

\* The trees the parser may hand over: any root, a scalar included.
Docs == GenValues(MaxNodes) \cup NamedDocs

\* ------------------------------------------------- places in the tree

\* No Object_Node: the NULL of an Object_Node*. Child positions start at 1.
NULL == <<0>>

\* The value at a place of the tree.
RECURSIVE ValueAt(_, _)
ValueAt(v, p) == IF p = <<>> THEN v ELSE ValueAt(v.vals[Head(p)], Tail(p))

\* The places of all values of the tree under v, v itself at place p.
RECURSIVE Places(_, _)
Places(v, p) ==
    {p} \cup UNION { Places(v.vals[i], Append(p, i)) : i \in 1..Len(v.vals) }

\* The places of the tree's Object_Nodes and Array_Nodes.
ObjectsOf(d) == { p \in Places(d, <<>>) : ValueAt(d, p).type = "VALUE_OBJECT" }

ArraysOf(d) == { p \in Places(d, <<>>) : ValueAt(d, p).type = "VALUE_ARRAY" }

\* ------------------------------------------------------------ schema.c

\* create_table_collection: the registry's initial capacity.
InitialCapacity == 10

\* The column count of a junction table.
JunctionColumnCount == 3

\* collect_object_keys: the keys of the object's pairs, in pair order.
collect_object_keys(obj) == obj.keys

\* A get_table_name_for_array without the special case of the root.
get_table_name_always_prefixed(parent_name, key) ==
    IF parent_name = <<>> THEN key ELSE parent_name[1] \o "_" \o key

\* get_table_name_for_array: key alone under a NULL or "root" parent, else
\* parent_name "_" key.
get_table_name_for_array(parent_name, key) ==
    IF parent_name = <<>> \/ parent_name[1] = "root"
    THEN key
    ELSE parent_name[1] \o "_" \o key

\* add_table: the registry with the table copied into slot table_count; the
\* capacity doubles when the registry is full.
add_table_capacity(cap, count) == IF count >= cap THEN cap * 2 ELSE cap

add_table(tbls, table) == Append(tbls, table)

\* find_or_create_table, the lookup: the first table of that name, 0 if none.
FindTable(tbls, name_candidate) ==
    IF \E i \in 1..Len(tbls) : tbls[i].name = name_candidate
    THEN CHOOSE i \in 1..Len(tbls) :
            /\ tbls[i].name = name_candidate
            /\ \A j \in 1..(i - 1) : tbls[j].name # name_candidate
    ELSE 0

\* A find_or_create_table that gives every table with a parent the
\* parent-FK column, the implicit root's children included.
has_parent_fk_any_parent(parent_fk) == parent_fk # <<>>

\* find_or_create_table: whether a created table gets a parent-FK column.
has_parent_fk(parent_fk) == parent_fk # <<>> /\ parent_fk[1] # "root"

\* A find_or_create_table that puts the parent-FK column after the keys.
NewTableFkLast(name_candidate, keys, parent_fk) ==
    [name |-> name_candidate,
     column_count |-> Len(keys) + 1 + (IF parent_fk # <<>> /\ parent_fk[1] # "root"
                                       THEN 1 ELSE 0),
     columns |-> <<"id">> \o keys
                 \o (IF parent_fk # <<>> /\ parent_fk[1] # "root"
                     THEN <<parent_fk[1] \o "_id">> ELSE <<>>),
     objects |-> NULL]

\* find_or_create_table, the miss: id, the parent-FK column, the keys. The
\* table names here are far shorter than fk_col_name[256].
NewTable(name_candidate, keys, parent_fk) ==
    [name |-> name_candidate,
     column_count |-> Len(keys) + 1 + (IF has_parent_fk(parent_fk) THEN 1 ELSE 0),
     columns |-> <<"id">>
                 \o (IF has_parent_fk(parent_fk) THEN <<parent_fk[1] \o "_id">> ELSE <<>>)
                 \o keys,
     objects |-> NULL]

\* A find_or_create_table without the lookup: it creates a table on every
\* call.
find_or_create_table_no_lookup(tbls, name_candidate, keys, parent_fk) ==
    add_table(tbls, NewTable(name_candidate, keys, parent_fk))

\* find_or_create_table: the registry afterwards.
find_or_create_table(tbls, name_candidate, keys, parent_fk) ==
    IF FindTable(tbls, name_candidate) # 0
    THEN tbls
    ELSE add_table(tbls, NewTable(name_candidate, keys, parent_fk))

\* find_or_create_table: the table returned, as its slot in the registry.
FoundOrCreated(tbls, name_candidate) ==
    IF FindTable(tbls, name_candidate) # 0
    THEN FindTable(tbls, name_candidate)
    ELSE Len(tbls) + 1

\* A process_array_node that names the second column index, the name
\* write_table_csv looks for.
JunctionTableIndexNamed(name, owner_table_name) ==
    [name |-> name,
     column_count |-> 3,
     columns |-> <<owner_table_name \o "_id", "index", "value">>,
     objects |-> NULL]

\* process_array_node: the junction table of an array of scalars.
JunctionTable(name, owner_table_name) ==
    [name |-> name,
     column_count |-> JunctionColumnCount,
     columns |-> <<owner_table_name \o "_id", "item_index", "value">>,
     objects |-> NULL]

\* add_object_to_table: the id the object is given, and the counter afterwards.
IssuedNodeId(counter) == counter

\* An add_object_to_table that forgets to advance the counter.
NextNodeIdNotAdvanced(counter) == counter

\* An add_object_to_table that advances the counter by two.
NextNodeIdSkips(counter) == counter + 2

NextNodeId(counter) == counter + 1

\* A generate_schema that does not reset the counter.
ResetNodeIdOmitted(counter) == counter

\* generate_schema: the counter at the start of a run.
ResetNodeId(counter) == 1

\* An add_object_to_table that does not link the former head behind the
\* added object.
NextOfAddedUnlinked(head) == NULL

\* add_object_to_table: the next link of the added object, the former head.
NextOfAdded(head) == head

\* A call of process_object_node or process_array_node: its arguments and
\* locals. table is the TableSchema* as a slot of the registry, table_cap the
\* capacity of the tables array the pointer points into, i the pair or
\* element the loop is at.
\* The calls of process_object_node and process_array_node made so far by
\* the running generate_schema, counted for each object and array of the
\* tree; CallsCap stands for every count from CallsCap on.
CallsCap == 2

NoCalls(d) == [n \in ObjectsOf(d) \cup ArraysOf(d) |-> 0]

\* generate_schema's call on the root, the first of a run.
RootCalled(d) ==
    IF d.type \in {"VALUE_OBJECT", "VALUE_ARRAY"}
    THEN [NoCalls(d) EXCEPT ![<<>>] = 1]
    ELSE NoCalls(d)

Called(n) == [calls EXCEPT ![n] = IF @ < CallsCap THEN @ + 1 ELSE @]

Frame(fn, at, node, table_name, key, parent_id, parent_fk) ==
    [fn |-> fn, at |-> at, node |-> node, table_name |-> table_name, key |-> key,
     parent_id |-> parent_id, parent_fk |-> parent_fk, table |-> 0, i |-> 1,
     elems_name |-> "", table_cap |-> 0]

Top == stack[Len(stack)]

Push(f) == Append(stack, f)

\* A return after which the caller's loop stays at the pair or element it
\* called for.
PopStays == SubSeq(stack, 1, Len(stack) - 1)

\* The callee returns: the caller's loop moves to its next pair or element.
Pop ==
    LET rest == SubSeq(stack, 1, Len(stack) - 1)
    IN IF rest = <<>> THEN rest
       ELSE [rest EXCEPT ![Len(rest)].i = rest[Len(rest)].i + 1]

SetTop(f) == [stack EXCEPT ![Len(stack)] = f]

Init ==
    /\ doc \in Docs
    /\ pc = "start"
    /\ run = 1
    /\ tables = <<>>
    /\ capacity = 0
    /\ table_count = 0
    /\ global_next_node_id = 1
    /\ node_id = [o \in ObjectsOf(doc) |-> 0]
    /\ next = [o \in ObjectsOf(doc) |-> NULL]
    /\ stack = <<>>
    /\ calls = NoCalls(doc)
    /\ diag = <<>>
    /\ wi = 0
    /\ files = <<>>
    /\ prev_files = <<>>
    /\ out_dir = <<>>
    /\ ferror = {}
    /\ error = ""

\* generate_schema: the message for a root that is no object and no array.
RootShapeError == "Error: Root of JSON data must be an object or an array."

\* A generate_schema without the last else branch: a scalar root gives an
\* empty schema.
GenerateSchemaNoRootCheck ==
    /\ pc = "start"
    /\ tables' = <<>>
    /\ table_count' = 0
    /\ capacity' = InitialCapacity
    /\ global_next_node_id' = 1
    /\ stack' = IF doc.type = "VALUE_OBJECT"
                THEN <<Frame("process_object_node", "entry", <<>>, "root", "", 0, <<>>)>>
                ELSE IF doc.type = "VALUE_ARRAY"
                THEN <<Frame("process_array_node", "entry", <<>>, "root", "items", 0, <<>>)>>
                ELSE <<>>
    /\ pc' = "infer"
    /\ calls' = RootCalled(doc)
    /\ UNCHANGED <<doc, run, node_id, next, diag, wi, files, prev_files,
                   out_dir, ferror, error>>

\* generate_schema up to its first call: a new registry, the counter reset,
\* and the root dispatched on its type; a scalar root is reported on stderr
\* and ends the process with EXIT_FAILURE.
GenerateSchema ==
    /\ pc = "start"
    /\ tables' = <<>>
    /\ table_count' = 0
    /\ capacity' = InitialCapacity
    /\ global_next_node_id' = ResetNodeId(global_next_node_id)
    /\ IF doc.type = "VALUE_OBJECT"
       THEN /\ stack' = <<Frame("process_object_node", "entry", <<>>, "root", "", 0, <<>>)>>
            /\ pc' = "infer"
            /\ error' = error
       ELSE IF doc.type = "VALUE_ARRAY"
       THEN /\ stack' = <<Frame("process_array_node", "entry", <<>>, "root", "items", 0, <<>>)>>
            /\ pc' = "infer"
            /\ error' = error
       ELSE /\ stack' = <<>>
            /\ pc' = "exit_failure"
            /\ error' = RootShapeError
    /\ calls' = RootCalled(doc)
    /\ UNCHANGED <<doc, run, node_id, next, diag, wi, files, prev_files,
                   out_dir, ferror>>

\* process_object_node up to its loop: the keys are collected, the table is
\* found or created, and the object is added at the head of its row list.
ProcessObjectNode ==
    /\ pc = "infer" /\ stack # <<>>
    /\ Top.fn = "process_object_node" /\ Top.at = "entry"
    /\ LET obj == ValueAt(doc, Top.node)
           keys == collect_object_keys(obj)
           tbls == find_or_create_table(tables, Top.table_name, keys, Top.parent_fk)
           t == FoundOrCreated(tables, Top.table_name)
       IN /\ capacity' = IF Len(tbls) > Len(tables)
                         THEN add_table_capacity(capacity, table_count)
                         ELSE capacity
          /\ table_count' = Len(tbls)
          /\ node_id' = [node_id EXCEPT ![Top.node] = IssuedNodeId(global_next_node_id)]
          /\ global_next_node_id' = NextNodeId(global_next_node_id)
          /\ next' = [next EXCEPT ![Top.node] = NextOfAdded(tbls[t].objects)]
          /\ tables' = [tbls EXCEPT ![t].objects = Top.node]
          /\ stack' = SetTop([Top EXCEPT !.at = "loop", !.table = t,
                                         !.table_cap = capacity'])
    /\ UNCHANGED <<doc, pc, run, diag, wi, files, prev_files, out_dir, ferror, error, calls>>

\* The pair the object loop is at.
InObjectLoop ==
    /\ pc = "infer" /\ stack # <<>>
    /\ Top.fn = "process_object_node" /\ Top.at = "loop"
    /\ Top.i <= Len(ValueAt(doc, Top.node).vals)

\* process_object_node, a pair holding an object: the nested object is
\* processed under the child name, with this table as its parent.
ObjectPairObject ==
    /\ InObjectLoop
    /\ ValueAt(doc, Top.node).vals[Top.i].type = "VALUE_OBJECT"
    /\ LET name == tables[Top.table].name
           key == ValueAt(doc, Top.node).keys[Top.i]
       IN stack' = Push(Frame("process_object_node", "entry", Append(Top.node, Top.i),
                              get_table_name_for_array(<<name>>, key), "",
                              node_id[Top.node], <<name>>))
    /\ calls' = Called(Append(Top.node, Top.i))
    /\ UNCHANGED <<doc, pc, run, tables, capacity, table_count, global_next_node_id,
                   node_id, next, diag, wi, files, prev_files,
                   out_dir, ferror, error>>

\* process_object_node, a pair holding an array.
ObjectPairArray ==
    /\ InObjectLoop
    /\ ValueAt(doc, Top.node).vals[Top.i].type = "VALUE_ARRAY"
    /\ LET name == tables[Top.table].name
           key == ValueAt(doc, Top.node).keys[Top.i]
       IN stack' = Push(Frame("process_array_node", "entry", Append(Top.node, Top.i),
                              name, key, node_id[Top.node], <<>>))
    /\ calls' = Called(Append(Top.node, Top.i))
    /\ UNCHANGED <<doc, pc, run, tables, capacity, table_count, global_next_node_id,
                   node_id, next, diag, wi, files, prev_files,
                   out_dir, ferror, error>>

\* process_object_node, a pair holding a scalar: nothing to do.
ObjectPairScalar ==
    /\ InObjectLoop
    /\ ValueAt(doc, Top.node).vals[Top.i].type \notin {"VALUE_OBJECT", "VALUE_ARRAY"}
    /\ stack' = SetTop([Top EXCEPT !.i = Top.i + 1])
    /\ UNCHANGED <<doc, pc, run, tables, capacity, table_count, global_next_node_id,
                   node_id, next, diag, wi, files, prev_files,
                   out_dir, ferror, error, calls>>

\* process_object_node returns after its last pair.
ObjectReturn ==
    /\ pc = "infer" /\ stack # <<>>
    /\ Top.fn = "process_object_node" /\ Top.at = "loop"
    /\ Top.i > Len(ValueAt(doc, Top.node).vals)
    /\ stack' = Pop
    /\ UNCHANGED <<doc, pc, run, tables, capacity, table_count, global_next_node_id,
                   node_id, next, diag, wi, files, prev_files,
                   out_dir, ferror, error, calls>>

\* A process_array_node without the test for an empty array: an empty array
\* is taken for an array of scalars.
ProcessArrayNodeNoEmptyTest ==
    /\ pc = "infer" /\ stack # <<>>
    /\ Top.fn = "process_array_node" /\ Top.at = "entry"
    /\ LET arr == ValueAt(doc, Top.node)
           name == get_table_name_for_array(<<Top.table_name>>, Top.key)
       IN IF Len(arr.vals) > 0 /\ arr.vals[1].type = "VALUE_OBJECT"
          THEN /\ stack' = SetTop([Top EXCEPT !.at = "loop", !.elems_name = name])
               /\ UNCHANGED <<tables, capacity, table_count>>
          ELSE /\ tables' = add_table(tables, JunctionTable(name, Top.table_name))
               /\ capacity' = add_table_capacity(capacity, table_count)
               /\ table_count' = table_count + 1
               /\ stack' = Pop
    /\ UNCHANGED <<doc, pc, run, global_next_node_id, node_id, next, diag, wi, files,
                   prev_files, out_dir, ferror, error, calls>>

\* process_array_node up to its loop: an empty array returns; an array whose
\* first element is an object is looped over; any other array adds one
\* junction table to the registry, with no lookup, and returns.
ProcessArrayNode ==
    /\ pc = "infer" /\ stack # <<>>
    /\ Top.fn = "process_array_node" /\ Top.at = "entry"
    /\ LET arr == ValueAt(doc, Top.node)
           name == get_table_name_for_array(<<Top.table_name>>, Top.key)
       IN IF Len(arr.vals) = 0
          THEN /\ stack' = Pop
               /\ UNCHANGED <<tables, capacity, table_count>>
          ELSE IF arr.vals[1].type = "VALUE_OBJECT"
          THEN /\ stack' = SetTop([Top EXCEPT !.at = "loop", !.elems_name = name])
               /\ UNCHANGED <<tables, capacity, table_count>>
          ELSE /\ tables' = add_table(tables, JunctionTable(name, Top.table_name))
               /\ capacity' = add_table_capacity(capacity, table_count)
               /\ table_count' = table_count + 1
               /\ stack' = Pop
    /\ UNCHANGED <<doc, pc, run, global_next_node_id, node_id, next, diag, wi, files,
                   prev_files, out_dir, ferror, error, calls>>

\* The element the array loop is at.
InArrayLoop ==
    /\ pc = "infer" /\ stack # <<>>
    /\ Top.fn = "process_array_node" /\ Top.at = "loop"
    /\ Top.i <= Len(ValueAt(doc, Top.node).vals)

\* process_array_node, an element that is an object: it is processed under
\* the array's table name, with the array owner's table as its parent.
ArrayElementObject ==
    /\ InArrayLoop
    /\ ValueAt(doc, Top.node).vals[Top.i].type = "VALUE_OBJECT"
    /\ stack' = Push(Frame("process_object_node", "entry", Append(Top.node, Top.i),
                           Top.elems_name, "", Top.parent_id, <<Top.table_name>>))
    /\ calls' = Called(Append(Top.node, Top.i))
    /\ UNCHANGED <<doc, pc, run, tables, capacity, table_count, global_next_node_id,
                   node_id, next, diag, wi, files, prev_files,
                   out_dir, ferror, error>>

\* A process_array_node that leaves its loop at the first element that is
\* no object.
ArrayElementOtherBreaks ==
    /\ InArrayLoop
    /\ ValueAt(doc, Top.node).vals[Top.i].type # "VALUE_OBJECT"
    /\ diag' = Append(diag, [array |-> Top.elems_name, index |-> Top.i - 1])
    /\ stack' = SetTop([Top EXCEPT !.i = Len(ValueAt(doc, Top.node).vals) + 1])
    /\ UNCHANGED <<doc, pc, run, tables, capacity, table_count, global_next_node_id,
                   node_id, next, wi, files, prev_files, out_dir, ferror, error, calls>>

\* process_array_node, an element that is no object: a warning naming the
\* array's table and the element's index, and the loop goes on.
ArrayElementOther ==
    /\ InArrayLoop
    /\ ValueAt(doc, Top.node).vals[Top.i].type # "VALUE_OBJECT"
    /\ diag' = Append(diag, [array |-> Top.elems_name, index |-> Top.i - 1])
    /\ stack' = SetTop([Top EXCEPT !.i = Top.i + 1])
    /\ UNCHANGED <<doc, pc, run, tables, capacity, table_count, global_next_node_id,
                   node_id, next, wi, files, prev_files,
                   out_dir, ferror, error, calls>>

\* process_array_node returns after its last element.
ArrayReturn ==
    /\ pc = "infer" /\ stack # <<>>
    /\ Top.fn = "process_array_node" /\ Top.at = "loop"
    /\ Top.i > Len(ValueAt(doc, Top.node).vals)
    /\ stack' = Pop
    /\ UNCHANGED <<doc, pc, run, tables, capacity, table_count, global_next_node_id,
                   node_id, next, diag, wi, files, prev_files,
                   out_dir, ferror, error, calls>>

\* generate_schema after the traversal: the registry becomes the schema, and
\* main goes on to write_csv_files.
SchemaGenerated ==
    /\ pc = "infer" /\ stack = <<>>
    /\ pc' = "write"
    /\ wi' = 1
    /\ UNCHANGED <<doc, run, tables, capacity, table_count, global_next_node_id,
                   node_id, next, stack, diag, files, prev_files,
                   out_dir, ferror, error, calls>>

\* ------------------------------------------------------ csv_generator.c

\* escape_csv_string: the text between two quotes, each quote in it doubled.
RECURSIVE EscapeFrom(_, _)
EscapeFrom(str, i) ==
    IF i > Len(str) THEN ""
    ELSE (IF SubSeq(str, i, i) = "\"" THEN "\"" ELSE "") \o SubSeq(str, i, i)
         \o EscapeFrom(str, i + 1)

escape_csv_string(str) == "\"" \o EscapeFrom(str, 1) \o "\""

\* value_to_csv_string. A number is a natural below 1000000 here, which %g
\* prints as its decimal digits.
value_to_csv_string(value) ==
    CASE value.type = "VALUE_STRING" -> escape_csv_string(value.string_val)
      [] value.type = "VALUE_NUMBER" -> ToString(value.number_val)
      [] value.type = "VALUE_BOOLEAN" -> IF value.boolean_val THEN "true" ELSE "false"
      [] OTHER -> ""

\* strstr(s, prefix) == s: s begins with prefix.
StartsWith(s, prefix) ==
    Len(s) >= Len(prefix) /\ SubSeq(s, 1, Len(prefix)) = prefix

\* write_table_csv, the header row: the columns joined by commas.
RECURSIVE HeaderFrom(_, _)
HeaderFrom(table, i) ==
    IF i > table.column_count THEN ""
    ELSE table.columns[i] \o (IF i < table.column_count THEN "," ELSE "")
         \o HeaderFrom(table, i + 1)

HeaderRow(table) == HeaderFrom(table, 1)

\* write_table_csv, the test for "junction tables": three columns, the
\* second named index and the third named value.
IsJunctionLayout(table) ==
    /\ table.column_count = 3
    /\ table.columns[2] = "index"
    /\ table.columns[3] = "value"

\* write_table_csv: is_child_table, the second column begins with _id.
is_child_table(table) ==
    table.column_count >= 2 /\ StartsWith(table.columns[2], "_id")

\* write_table_csv, a regular column: the text of the value of the object's
\* first pair with the column's name, empty if it has none.
LookupCell(obj, column) ==
    IF \E k \in 1..Len(obj.keys) : obj.keys[k] = column
    THEN LET k == CHOOSE k \in 1..Len(obj.keys) :
                    /\ obj.keys[k] = column
                    /\ \A j \in 1..(k - 1) : obj.keys[j] # column
         IN value_to_csv_string(obj.vals[k])
    ELSE ""

\* write_table_csv, the cell of column i (the second column is 2) of the
\* row of the object at place o, seq rows having been written before it.
Cell(table, o, i, seq) ==
    IF i = 2 /\ is_child_table(table)
    THEN ToString(node_id[o])
    ELSE IF i = 3 /\ is_child_table(table) /\ table.columns[3] = "seq"
    THEN ToString(seq)
    ELSE LookupCell(ValueAt(doc, o), table.columns[i])

RECURSIVE CellsFrom(_, _, _, _)
CellsFrom(table, o, i, seq) ==
    IF i > table.column_count THEN ""
    ELSE "," \o Cell(table, o, i, seq) \o CellsFrom(table, o, i + 1, seq)

\* write_table_csv, one row: the object's id, then the other columns.
Row(table, o, seq) == ToString(node_id[o]) \o CellsFrom(table, o, 2, seq)

\* The objects of a row list, from its head along the next links.
RECURSIVE RowList(_)
RowList(o) == IF o = NULL THEN <<>> ELSE <<o>> \o RowList(next[o])

\* A write_table_csv that writes the row list from its tail to its head.
ObjectRowsFromTail(table) ==
    LET list == RowList(table.objects)
    IN [r \in 1..Len(list) |-> Row(table, list[Len(list) + 1 - r], r - 1)]

\* write_table_csv, the object rows, in the order of the row list.
ObjectRows(table) ==
    LET list == RowList(table.objects)
    IN [r \in 1..Len(list) |-> Row(table, list[r], r - 1)]

\* write_table_csv: what the file of a table holds afterwards.
TableFile(table) == <<HeaderRow(table)>> \o ObjectRows(table)

\* fopen(filename, "w") and the writes: the file is created or overwritten.
WithFile(fs, name, lines) ==
    [n \in DOMAIN fs \cup {name} |-> IF n = name THEN lines ELSE fs[n]]

\* The table write_csv_files is at.
InWriteLoop == pc = "write" /\ wi <= table_count

\* write_table_csv of a table that is not taken for a junction table.
WriteTableCsv ==
    /\ InWriteLoop
    /\ ~IsJunctionLayout(tables[wi])
    /\ files' = WithFile(files, tables[wi].name, TableFile(tables[wi]))
    /\ wi' = wi + 1
    /\ UNCHANGED <<doc, pc, run, tables, capacity, table_count, global_next_node_id,
                   node_id, next, stack, diag, prev_files,
                   out_dir, ferror, error, calls>>

\* write_table_csv of a table taken for a junction table: after the header
\* it calls free on key_name + 1, a pointer malloc never returned. Where
\* free does not detect that, the function returns after the header.
WriteJunctionLayoutReturns ==
    /\ InWriteLoop
    /\ IsJunctionLayout(tables[wi])
    /\ files' = WithFile(files, tables[wi].name, <<HeaderRow(tables[wi])>>)
    /\ wi' = wi + 1
    /\ UNCHANGED <<doc, pc, run, tables, capacity, table_count, global_next_node_id,
                   node_id, next, stack, diag, prev_files,
                   out_dir, ferror, error, calls>>

\* The same call where free detects the invalid pointer and aborts: the
\* file is open, and its buffered header is flushed or lost.
WriteJunctionLayoutAborts ==
    /\ InWriteLoop
    /\ IsJunctionLayout(tables[wi])
    /\ \E flushed \in BOOLEAN :
          files' = WithFile(files, tables[wi].name,
                            IF flushed THEN <<HeaderRow(tables[wi])>> ELSE <<>>)
    /\ pc' = "aborted"
    /\ UNCHANGED <<doc, run, tables, capacity, table_count, global_next_node_id,
                   node_id, next, stack, diag, wi, prev_files,
                   out_dir, ferror, error, calls>>

\* write_csv_files returns after the last table, and main ends with
\* EXIT_SUCCESS.
WriteCsvFilesReturns ==
    /\ pc = "write" /\ wi > table_count
    /\ pc' = "done"
    /\ UNCHANGED <<doc, run, tables, capacity, table_count, global_next_node_id,
                   node_id, next, stack, diag, wi, files, prev_files,
                   out_dir, ferror, error, calls>>

\* A caller that keeps the tree runs generate_schema and write_csv_files on
\* it again, writing into another, empty directory: the objects keep the
\* node_id and next of the first run, prev_files keeps its files.
RunAgain ==
    /\ pc = "done" /\ run = 1
    /\ run' = 2
    /\ pc' = "start"
    /\ prev_files' = files
    /\ files' = <<>>
    /\ diag' = <<>>
    /\ ferror' = {}
    /\ UNCHANGED <<doc, tables, capacity, table_count, global_next_node_id,
                   node_id, next, stack, wi, out_dir, error, calls>>

Next ==
    \/ GenerateSchema
    \/ ProcessObjectNode
    \/ ObjectPairObject
    \/ ObjectPairArray
    \/ ObjectPairScalar
    \/ ObjectReturn
    \/ ProcessArrayNode
    \/ ArrayElementObject
    \/ ArrayElementOther
    \/ ArrayReturn
    \/ SchemaGenerated
    \/ WriteTableCsv
    \/ WriteJunctionLayoutReturns
    \/ WriteJunctionLayoutAborts
    \/ WriteCsvFilesReturns
    \/ RunAgain

Spec == Init /\ [][Next]_vars

\* ------------------------------------ main and the failures of the I/O

\* The messages of the fatal errors of main and of write_csv_files.
NoAstError == "Error: No AST generated"

MkdirError == "Error: Failed to create directory"

FopenError == "Error: Failed to open file"

\* The process starts in main, before yyparse; --out-dir is given or not.
InitIO ==
    /\ doc \in Docs
    /\ pc = "main"
    /\ run = 1
    /\ tables = <<>>
    /\ capacity = 0
    /\ table_count = 0
    /\ global_next_node_id = 1
    /\ node_id = [o \in ObjectsOf(doc) |-> 0]
    /\ next = [o \in ObjectsOf(doc) |-> NULL]
    /\ stack = <<>>
    /\ calls = NoCalls(doc)
    /\ diag = <<>>
    /\ wi = 0
    /\ files = <<>>
    /\ prev_files = <<>>
    /\ out_dir \in {<<>>, <<"out">>}
    /\ ferror = {}
    /\ error = ""

\* main: yyparse returns non-zero (yyerror has reported the input), and main
\* returns EXIT_FAILURE.
YyparseFails ==
    /\ pc = "main"
    /\ pc' = "exit_failure"
    /\ error' = "yyerror"
    /\ UNCHANGED <<doc, run, tables, capacity, table_count, global_next_node_id,
                   node_id, next, stack, diag, wi, files, prev_files, out_dir, ferror, calls>>

\* main: yyparse returns 0 and has left ast_root NULL.
NoAstGenerated ==
    /\ pc = "main"
    /\ pc' = "exit_failure"
    /\ error' = NoAstError
    /\ UNCHANGED <<doc, run, tables, capacity, table_count, global_next_node_id,
                   node_id, next, stack, diag, wi, files, prev_files, out_dir, ferror, calls>>

\* main: yyparse returns 0 with the tree in ast_root, and main goes on to
\* generate_schema.
Parsed ==
    /\ pc = "main"
    /\ pc' = "start"
    /\ UNCHANGED <<doc, run, tables, capacity, table_count, global_next_node_id,
                   node_id, next, stack, diag, wi, files, prev_files, out_dir, ferror,
                   error, calls>>

\* write_csv_files, with an --out-dir that is given and not empty:
\* ensure_directory fails to create it, and the process exits.
EnsureDirectoryFails ==
    /\ pc = "infer" /\ stack = <<>>
    /\ out_dir # <<>> /\ out_dir[1] # ""
    /\ pc' = "exit_failure"
    /\ error' = MkdirError
    /\ UNCHANGED <<doc, run, tables, capacity, table_count, global_next_node_id,
                   node_id, next, stack, diag, wi, files, prev_files, out_dir, ferror, calls>>

\* write_table_csv: fopen fails, and the process exits. The files written
\* before stay as they are.
FopenFails ==
    /\ InWriteLoop
    /\ pc' = "exit_failure"
    /\ error' = FopenError
    /\ UNCHANGED <<doc, run, tables, capacity, table_count, global_next_node_id,
                   node_id, next, stack, diag, wi, files, prev_files, out_dir, ferror, calls>>

\* What one call of write_table_csv writes when no write fails.
LinesToWrite(table) ==
    IF IsJunctionLayout(table) THEN <<HeaderRow(table)>> ELSE TableFile(table)

\* write_table_csv with a failing write (a full disk, say): no return value
\* of fprintf or fclose is read, so the call goes on to its end; the file
\* keeps the lines that were written before the failure. For a table taken
\* for a junction table the call then ends as in WriteJunctionLayoutReturns
\* or as in WriteJunctionLayoutAborts.
WriteFails ==
    /\ InWriteLoop
    /\ \E k \in 0..(Len(LinesToWrite(tables[wi])) - 1) :
          files' = WithFile(files, tables[wi].name,
                            SubSeq(LinesToWrite(tables[wi]), 1, k))
    /\ ferror' = ferror \cup {tables[wi].name}
    /\ \E aborts \in {FALSE, IsJunctionLayout(tables[wi])} :
          IF aborts THEN pc' = "aborted" /\ wi' = wi
          ELSE pc' = pc /\ wi' = wi + 1
    /\ UNCHANGED <<doc, run, tables, capacity, table_count, global_next_node_id,
                   node_id, next, stack, diag, prev_files, out_dir, error, calls>>

\* ------------------------------------- the registry past its capacity

\* Number of fields of the wide tree below: with the table of the root, one
\* table more than the registry's initial capacity.
WideFields == 11

\* {"k1": {}, ..., "k10": {}, "k11": [1]}: ten fields holding an empty
\* object and a last field holding an array.
DocWide ==
    Obj([k \in 1..WideFields |-> "k" \o ToString(k)],
        [k \in 1..WideFields |-> IF k < WideFields THEN Obj(<<>>, <<>>) ELSE Arr(<<Num(1)>>)])

\* {"k1": {}, ..., "k11": {}, "k12": {}}: one object more, the last one
\* named through the pointer as well.
DocWider ==
    Obj([k \in 1..(WideFields + 1) |-> "k" \o ToString(k)],
        [k \in 1..(WideFields + 1) |-> Obj(<<>>, <<>>)])

DocsRealloc == {DocWide, DocWider, DocMixed, DocIndexValue, DocTags}

InitRealloc ==
    /\ doc \in DocsRealloc
    /\ pc = "start"
    /\ run = 1
    /\ tables = <<>>
    /\ capacity = 0
    /\ table_count = 0
    /\ global_next_node_id = 1
    /\ node_id = [o \in ObjectsOf(doc) |-> 0]
    /\ next = [o \in ObjectsOf(doc) |-> NULL]
    /\ stack = <<>>
    /\ calls = NoCalls(doc)
    /\ diag = <<>>
    /\ wi = 0
    /\ files = <<>>
    /\ prev_files = <<>>
    /\ out_dir = <<>>
    /\ ferror = {}
    /\ error = ""

\* process_object_node is at a pair holding an object or an array and its
\* table pointer points into a tables array that add_table has since given
\* to realloc: reading table->name reads memory that may have been freed.
\* (ObjectPairObject and ObjectPairArray are the outcome in which the array
\* was grown in place or the freed block still holds the table.)
AtStaleHandle ==
    /\ InObjectLoop
    /\ ValueAt(doc, Top.node).vals[Top.i].type \in {"VALUE_OBJECT", "VALUE_ARRAY"}
    /\ Top.table_cap # capacity

\* What table->name may read as from a block that was freed and used again.
FreedNames == {"", "k1"}

\* The read through the stale pointer faults: the process is killed.
StaleHandleFaults ==
    /\ AtStaleHandle
    /\ pc' = "crashed"
    /\ UNCHANGED <<doc, run, tables, capacity, table_count, global_next_node_id,
                   node_id, next, stack, diag, wi, files, prev_files, out_dir, ferror,
                   error, calls>>

\* The read through the stale pointer gives another string than the name
\* of the object's table, and the nested object or the array is processed
\* under it.
StaleHandleReadsOther ==
    /\ AtStaleHandle
    /\ \E name \in FreedNames :
          LET key == ValueAt(doc, Top.node).keys[Top.i]
          IN /\ name # tables[Top.table].name
             /\ stack' = Push(
                   IF ValueAt(doc, Top.node).vals[Top.i].type = "VALUE_OBJECT"
                   THEN Frame("process_object_node", "entry", Append(Top.node, Top.i),
                              get_table_name_for_array(<<name>>, key), "",
                              node_id[Top.node], <<name>>)
                   ELSE Frame("process_array_node", "entry", Append(Top.node, Top.i),
                              name, key, node_id[Top.node], <<>>))
    /\ calls' = Called(Append(Top.node, Top.i))
    /\ UNCHANGED <<doc, pc, run, tables, capacity, table_count, global_next_node_id,
                   node_id, next, diag, wi, files, prev_files, out_dir, ferror, error>>

NextRealloc ==
    \/ Next
    \/ StaleHandleFaults
    \/ StaleHandleReadsOther

SpecRealloc == InitRealloc /\ [][NextRealloc]_vars

NextIO ==
    \/ Next
    \/ YyparseFails
    \/ NoAstGenerated
    \/ Parsed
    \/ EnsureDirectoryFails
    \/ FopenFails
    \/ WriteFails

SpecIO == InitIO /\ [][NextIO]_vars

\* ------------------------------------------------- what the claims read

\* The row list of the table in slot i, head first.
RowsOf(i) == RowList(tables[i].objects)

\* The objects in the row list of some table.
Listed == UNION { { RowsOf(i)[r] : r \in 1..Len(RowsOf(i)) } : i \in 1..Len(tables) }

\* How many places of all row lists hold the object.
Occurrences(o) ==
    Cardinality({ ir \in (1..Len(tables)) \X (1..Cardinality(ObjectsOf(doc))) :
                    ir[2] <= Len(RowsOf(ir[1])) /\ RowsOf(ir[1])[ir[2]] = o })

\* The traversal is over: the schema is being written or has been written.
Inferred == pc \in {"write", "done", "aborted"}

\* The objects the traversal is defined to reach: the root object, the
\* objects held by a field of a reached object, and the object elements of
\* an array that is the root or a field of a reached object and whose first
\* element is an object.
RECURSIVE Routed(_, _)
Routed(v, p) ==
    IF v.type = "VALUE_OBJECT"
    THEN {p} \cup UNION { Routed(v.vals[i], Append(p, i)) : i \in 1..Len(v.vals) }
    ELSE IF v.type = "VALUE_ARRAY" /\ Len(v.vals) > 0 /\ v.vals[1].type = "VALUE_OBJECT"
    THEN UNION { Routed(v.vals[i], Append(p, i)) :
                 i \in { j \in 1..Len(v.vals) : v.vals[j].type = "VALUE_OBJECT" } }
    ELSE {}

\* ---------------------------------------------------------------- C1

\* C1: in every state, any two different objects that are in row lists (of
\* one table or of two) carry different row_ids.
C1_RowIdsUnique ==
    \A o1 \in Listed : \A o2 \in Listed : o1 # o2 => node_id[o1] # node_id[o2]

\* A finished run with two rows in one table and rows in two tables.
C1_Witness ==
    /\ pc = "done"
    /\ \E i \in 1..Len(tables) : Len(RowsOf(i)) >= 2
    /\ \E i \in 1..Len(tables) : \E j \in 1..Len(tables) :
          i # j /\ RowsOf(i) # <<>> /\ RowsOf(j) # <<>>

\* ---------------------------------------------------------------- C2

\* C2 as stated: after inference every object of the tree has a positive
\* row_id and is at exactly one place of exactly one row list.
C2_EveryObjectAssignedOnce ==
    Inferred => \A o \in ObjectsOf(doc) : node_id[o] > 0 /\ Occurrences(o) = 1

\* C2 as amended: after inference every object the traversal reaches (see
\* Routed) has a positive row_id and is at exactly one place of exactly one
\* row list; every other object of the tree (in an array whose first element
\* is no object, or in an array that is an element of an array) has no
\* row_id and is in no row list.
C2_RoutedObjectsAssignedOnce ==
    Inferred =>
        \A o \in ObjectsOf(doc) :
            IF o \in Routed(doc, <<>>)
            THEN node_id[o] > 0 /\ Occurrences(o) = 1
            ELSE node_id[o] = 0 /\ Occurrences(o) = 0

\* A finished run over a tree with reached objects below the root and an
\* object that is not reached.
C2_Witness ==
    /\ pc = "done"
    /\ Cardinality(Routed(doc, <<>>)) >= 3
    /\ ObjectsOf(doc) \ Routed(doc, <<>>) # {}

\* ---------------------------------------------------------------- C3

\* C3: in every state, no two tables of the registry have the same name.
C3_TableNamesUnique ==
    \A i \in 1..Len(tables) : \A j \in 1..Len(tables) :
        i # j => tables[i].name # tables[j].name

\* ---------------------------------------------------------------- C4

\* C4: after inference, the columns of every table contain id and every
\* field name of every object in its row list.
C4_ColumnsCoverFields ==
    Inferred =>
        \A i \in 1..Len(tables) : \A r \in 1..Len(RowsOf(i)) :
            LET cols == { tables[i].columns[c] : c \in 1..Len(tables[i].columns) }
                obj == ValueAt(doc, RowsOf(i)[r])
            IN "id" \in cols /\ \A k \in 1..Len(obj.keys) : obj.keys[k] \in cols

\* ------------------------------------------------- reading a CSV line

\* The fields of a line: split at the commas outside quotes, each field as
\* written (a quoted field keeps its quotes).
RECURSIVE FieldsFrom(_, _, _, _)
FieldsFrom(line, i, quoted, field) ==
    IF i > Len(line) THEN <<field>>
    ELSE LET c == SubSeq(line, i, i)
         IN IF c = "\"" THEN FieldsFrom(line, i + 1, ~quoted, field \o c)
            ELSE IF c = "," /\ ~quoted
            THEN <<field>> \o FieldsFrom(line, i + 1, FALSE, "")
            ELSE FieldsFrom(line, i + 1, quoted, field \o c)

CsvFields(line) == FieldsFrom(line, 1, FALSE, "")

\* The slot of the table whose row list holds the object.
TableOf(o) == CHOOSE i \in 1..Len(tables) : \E r \in 1..Len(RowsOf(i)) : RowsOf(i)[r] = o

\* The structural parent of an object below the root: the object whose field
\* holds it, or the object owning the array it is an element of.
ParentObject(o) ==
    LET up == SubSeq(o, 1, Len(o) - 1)
    IN IF ValueAt(doc, up).type = "VALUE_OBJECT" THEN up
       ELSE SubSeq(up, 1, Len(up) - 1)

\* The table in slot i is the last of its name: its file is not overwritten
\* by the file of a later table.
LastOfName(i) == \A j \in (i + 1)..Len(tables) : tables[j].name # tables[i].name

\* ---------------------------------------------------------------- C5

\* C5: in the written file of every table whose second column is the
\* parent-FK column (the name of the parent object's table, then _id), the
\* second field of every row is the row_id of the row's structural parent.
C5_ParentFkIsParentRowId ==
    pc = "done" =>
        \A i \in 1..Len(tables) : \A r \in 1..Len(RowsOf(i)) :
            LET o == RowsOf(i)[r]
            IN (/\ LastOfName(i)
                /\ o # <<>>
                /\ ParentObject(o) \in Listed
                /\ tables[i].column_count >= 2
                /\ tables[i].columns[2] = tables[TableOf(ParentObject(o))].name \o "_id")
               => (/\ Len(files[tables[i].name]) >= r + 1
                   /\ Len(CsvFields(files[tables[i].name][r + 1])) >= 2
                   /\ CsvFields(files[tables[i].name][r + 1])[2]
                        = ToString(node_id[ParentObject(o)]))

\* ---------------------------------------------------------------- C6

\* C6: once write_table_csv has been called for a table (and has returned,
\* or has ended the process), the table's file holds the header row, the
\* column names joined by commas, and then one row per object of the table's
\* row list, in the order of the list, each beginning with the object's
\* row_id.
C6_HeaderAndOneRowPerObject ==
    (pc \in {"write", "done", "aborted"}) =>
        \A i \in 1..Len(tables) :
            ((i < wi \/ (pc = "aborted" /\ i = wi)) /\ LastOfName(i)) =>
                LET f == files[tables[i].name]
                IN /\ Len(f) = 1 + Len(RowsOf(i))
                   /\ f[1] = HeaderRow(tables[i])
                   /\ \A r \in 1..Len(RowsOf(i)) :
                         CsvFields(f[r + 1])[1] = ToString(node_id[RowsOf(i)[r]])

\* ---------------------------------------------------------------- C7

\* The processed arrays of scalars: the non-empty arrays, root or field of a
\* reached object, whose first element is no object.
ScalarArrays ==
    { a \in ArraysOf(doc) :
        /\ Len(ValueAt(doc, a).vals) > 0
        /\ ValueAt(doc, a).vals[1].type # "VALUE_OBJECT"
        /\ (a = <<>> \/ SubSeq(a, 1, Len(a) - 1) \in Routed(doc, <<>>)) }

\* The row_id of the owner of a processed array (0 for a root array), and
\* the name of the array's junction table.
OwnerRowId(a) == IF a = <<>> THEN 0 ELSE node_id[SubSeq(a, 1, Len(a) - 1)]

JunctionNameOf(a) ==
    IF a = <<>> THEN get_table_name_for_array(<<"root">>, "items")
    ELSE LET owner == SubSeq(a, 1, Len(a) - 1)
         IN get_table_name_for_array(<<tables[TableOf(owner)].name>>,
                                     ValueAt(doc, owner).keys[a[Len(a)]])

\* The rows a processed array of scalars is to give: (r, i, text of element
\* i) for i = 0..n-1, r the owner's row_id.
ExpectedJunctionRows(a) ==
    [e \in 1..Len(ValueAt(doc, a).vals) |->
        ToString(OwnerRowId(a)) \o "," \o ToString(e - 1) \o ","
        \o value_to_csv_string(ValueAt(doc, a).vals[e])]

\* C7: for every processed array of scalars of length n whose owner has
\* row_id r, the file of the array's junction table holds, after the header,
\* the rows (r, i, text of element i) for i = 0..n-1, in array order.
C7_JunctionRowsPerElement ==
    pc = "done" =>
        \A a \in ScalarArrays :
            /\ JunctionNameOf(a) \in DOMAIN files
            /\ LET f == files[JunctionNameOf(a)]
                   n == Len(ValueAt(doc, a).vals)
               IN \E pos \in [1..n -> 2..Len(f)] :
                     /\ \A e \in 1..n : f[pos[e]] = ExpectedJunctionRows(a)[e]
                     /\ \A e \in 1..(n - 1) : pos[e] < pos[e + 1]

\* ---------------------------------------------------------------- C8

\* C8: for {"name": "A", "tags": ["x","y"]} the finished run has written
\* exactly the files root, with header id,name and the row 1,"A", and
\* root_tags, with header root_id,item_index,value and the rows 1,0,"x" and
\* 1,1,"y".
C8_TagsExample ==
    (doc = DocTags /\ pc = "done") =>
        /\ DOMAIN files = {"root", "root_tags"}
        /\ files["root"] = <<"id,name", "1,\"A\"">>
        /\ files["root_tags"] = <<"root_id,item_index,value", "1,0,\"x\"", "1,1,\"y\"">>

\* ---------------------------------------------------------------- C9

\* C9 as stated: for {"items": [{"a":1},{"a":2}]} the file of root has no
\* data row, and the file of items has the header id,root_id,a and two rows,
\* with ids 1 and 2, the root's row_id as root_id, and a = 1 and a = 2.
C9_ItemsExample ==
    (doc = DocItems /\ pc = "done") =>
        /\ Len(files["root"]) = 1
        /\ Len(files["items"]) = 3
        /\ files["items"][1] = "id,root_id,a"
        /\ { CsvFields(files["items"][l]) : l \in 2..3 }
             = { <<"1", ToString(node_id[<<>>]), "1">>, <<"2", ToString(node_id[<<>>]), "2">> }

\* C9 as amended: for {"items": [{"a":1},{"a":2}]} the root object is the
\* single data row of root (columns id, items; row_id 1 and an empty items
\* cell), and the file of items has the header id,a (no root_id: the parent
\* is the implicit root) and two rows, row_id 3 with a = 2 and then row_id 2
\* with a = 1.
C9_ItemsExampleAsCoded ==
    (doc = DocItems /\ pc = "done") =>
        /\ DOMAIN files = {"root", "items"}
        /\ files["root"] = <<"id,items", "1,">>
        /\ files["items"] = <<"id,a", "3,2", "2,1">>

C9_Witness == doc = DocItems /\ pc = "done" /\ Len(RowsOf(2)) = 2

\* --------------------------------------------------------------- C10

\* C10: when the second run over the same tree has finished, its files are
\* the files of the first run, name by name and line by line.
C10_SecondRunSameFiles ==
    (run = 2 /\ pc = "done") => files = prev_files

\* A finished second run that has written rows of two tables and met, in
\* its objects, the row_ids and next links left by the first run.
C10_Witness ==
    /\ run = 2 /\ pc = "done"
    /\ \E i \in 1..Len(tables) : Len(RowsOf(i)) >= 2
    /\ \E n \in DOMAIN files : \E m \in DOMAIN files : n # m /\ Len(files[n]) >= 2 /\ Len(files[m]) >= 2

\* --------------------------------------------------------------- C11

\* C11: the process ends with exit code 0 only if parsing, inference and the
\* writing of every table file succeeded: when main has returned
\* EXIT_SUCCESS, no fatal error was reported, every table has its file, and
\* no write to a table file has failed.
C11_ExitZeroOnlyOnSuccess ==
    pc = "done" =>
        /\ error = ""
        /\ doc.type \in {"VALUE_OBJECT", "VALUE_ARRAY"}
        /\ \A i \in 1..Len(tables) : tables[i].name \in DOMAIN files
        /\ ferror = {}

\* --------------------------------------------------------------- C12

\* C12: a root that is a string, a number, a boolean or null makes
\* generate_schema end the process with the root-shape error while the
\* registry is empty, the id counter has issued nothing and no file is
\* written; a root that is an object or an array never gives that error.
\* (A process that ended in main before generate_schema is not concerned.)
C12_ScalarRootFailsFirst ==
    IF doc.type \in {"VALUE_OBJECT", "VALUE_ARRAY"}
    THEN error # RootShapeError
    ELSE (pc \notin {"main", "start"} /\ error \notin {"yyerror", NoAstError}) =>
            /\ pc = "exit_failure"
            /\ error = RootShapeError
            /\ tables = <<>> /\ table_count = 0
            /\ global_next_node_id = 1
            /\ files = <<>>

\* A scalar root has been turned down.
C12_Witness ==
    /\ doc = DocNull
    /\ pc = "exit_failure" /\ error = RootShapeError

\* --------------------------------------------------------------- C13

\* Reading a field back: a field written between quotes loses them, and
\* each doubled quote in it becomes one quote.
RECURSIVE UnquoteFrom(_, _)
UnquoteFrom(field, i) ==
    IF i >= Len(field) THEN ""
    ELSE IF SubSeq(field, i, i) = "\"" /\ i + 1 < Len(field)
            /\ SubSeq(field, i + 1, i + 1) = "\""
    THEN "\"" \o UnquoteFrom(field, i + 2)
    ELSE SubSeq(field, i, i) \o UnquoteFrom(field, i + 1)

Unquote(field) ==
    IF Len(field) >= 2 /\ SubSeq(field, 1, 1) = "\""
       /\ SubSeq(field, Len(field), Len(field)) = "\""
    THEN UnquoteFrom(field, 2)
    ELSE field

\* The record a reader of CSV gets from a line.
CsvRecord(line) ==
    [c \in 1..Len(CsvFields(line)) |-> Unquote(CsvFields(line)[c])]

\* The text form of a scalar value.
TextForm(value) ==
    CASE value.type = "VALUE_STRING" -> value.string_val
      [] value.type = "VALUE_NUMBER" -> ToString(value.number_val)
      [] value.type = "VALUE_BOOLEAN" -> IF value.boolean_val THEN "true" ELSE "false"
      [] OTHER -> ""

\* C13: after a finished run, reading the file of every table back gives,
\* for each row of the table's row list in order, a record with one field
\* per column name of the header, whose id is the object's row_id, whose
\* parent-FK field (when the table has that column) is the row_id of the
\* object's parent, and in which every scalar field of the object is found
\* under its name with the text form of its value; field names that are
\* repeated or hold a comma or a quote included.
C13_RoundTrip ==
    pc = "done" =>
        \A i \in 1..Len(tables) : \A r \in 1..Len(RowsOf(i)) :
            LastOfName(i) =>
                LET f == files[tables[i].name]
                    o == RowsOf(i)[r]
                    obj == ValueAt(doc, o)
                    hdr == CsvRecord(f[1])
                    rec == CsvRecord(f[r + 1])
                IN /\ Len(f) >= r + 1
                   /\ hdr = tables[i].columns
                   /\ Len(rec) = Len(hdr)
                   /\ rec[1] = ToString(node_id[o])
                   /\ (/\ o # <<>>
                       /\ ParentObject(o) \in Listed
                       /\ tables[i].column_count >= 2
                       /\ tables[i].columns[2]
                            = tables[TableOf(ParentObject(o))].name \o "_id")
                      => rec[2] = ToString(node_id[ParentObject(o)])
                   /\ \A k \in 1..Len(obj.keys) :
                         obj.vals[k].type \notin {"VALUE_OBJECT", "VALUE_ARRAY"} =>
                            \E c \in 2..Len(hdr) :
                                /\ hdr[c] = obj.keys[k]
                                /\ rec[c] = TextForm(obj.vals[k])

\* --------------------------------------------------------------- C14

\* The non-empty arrays whose first element is an object; among them the
\* processed ones, the root or the value of a field of a reached object.
ObjectArrays ==
    { a \in ArraysOf(doc) :
        /\ Len(ValueAt(doc, a).vals) > 0
        /\ ValueAt(doc, a).vals[1].type = "VALUE_OBJECT" }

ProcessedObjectArrays ==
    { a \in ObjectArrays : a = <<>> \/ SubSeq(a, 1, Len(a) - 1) \in Routed(doc, <<>>) }

\* The positions of the elements of an array that are objects, and of those
\* that are not.
ObjectElements(a) ==
    { e \in 1..Len(ValueAt(doc, a).vals) : ValueAt(doc, a).vals[e].type = "VALUE_OBJECT" }

OtherElements(a) == (1..Len(ValueAt(doc, a).vals)) \ ObjectElements(a)

\* After inference, for the array at place a: every element that is an
\* object has a row_id and is in the row list of the table named from the
\* owner's table and the field name, and the object elements got their
\* row_ids in array order (so none after a skipped element was left out).
ElementsRouted(a) ==
    /\ \A e \in ObjectElements(a) :
          /\ Append(a, e) \in Listed
          /\ node_id[Append(a, e)] > 0
          /\ tables[TableOf(Append(a, e))].name = JunctionNameOf(a)
          /\ TableOf(Append(a, e)) = FindTable(tables, JunctionNameOf(a))
    /\ \A e1 \in ObjectElements(a) : \A e2 \in ObjectElements(a) :
          e1 < e2 => node_id[Append(a, e1)] < node_id[Append(a, e2)]

\* One step of process_array_node on an array whose first element is an
\* object: the step itself adds no table (so no junction table), no row and
\* issues no row_id; an object element is handed to process_object_node
\* under the child name with the owner's table as parent; any other element
\* gives exactly one diagnostic and the loop moves to the next element.
ObjectArrayStep ==
    (/\ pc = "infer" /\ stack # <<>>
     /\ Top.fn = "process_array_node"
     /\ Top.node \in ObjectArrays)
    => /\ tables' = tables /\ table_count' = table_count
       /\ node_id' = node_id /\ next' = next
       /\ global_next_node_id' = global_next_node_id
       /\ IF Top.at = "loop" /\ Top.i \in OtherElements(Top.node)
          THEN /\ Len(diag') = Len(diag) + 1
               /\ SubSeq(diag', 1, Len(diag)) = diag
               /\ Len(stack') = Len(stack)
               /\ stack'[Len(stack)].i = Top.i + 1
          ELSE diag' = diag
       /\ (Top.at = "loop" /\ Top.i \in ObjectElements(Top.node))
          => /\ Len(stack') = Len(stack) + 1
             /\ stack'[Len(stack')].fn = "process_object_node"
             /\ stack'[Len(stack')].node = Append(Top.node, Top.i)
             /\ stack'[Len(stack')].table_name
                  = get_table_name_for_array(<<Top.table_name>>, Top.key)
             /\ stack'[Len(stack')].parent_fk = <<Top.table_name>>

\* C14 as stated: the above for every non-empty array of the tree whose
\* first element is an object.
C14_ObjectArraysRouted ==
    Inferred => \A a \in ObjectArrays : ElementsRouted(a)

\* C14 as amended: for every non-empty array whose first element is an
\* object and that is the root or the value of a field of a reached object,
\* no junction table is created for it, every element that is an object is
\* routed, in array order, to the table named from the owner's table and the
\* field name with the owner's table as parent, and every other element
\* gives exactly one diagnostic, no table, no row and no row_id, and the
\* elements after it are still processed. (An array that is an element of
\* an array, or lies in an object that is not reached, is not processed.)
C14_ProcessedObjectArraysRouted ==
    /\ [](Inferred =>
            /\ \A a \in ProcessedObjectArrays : ElementsRouted(a)
            /\ Len(diag) = Cardinality(UNION { { <<a, e>> : e \in OtherElements(a) } :
                                               a \in ProcessedObjectArrays }))
    /\ [][ObjectArrayStep]_vars

\* A finished run over an array that held an object, then another value,
\* then an object again.
C14_Witness ==
    /\ pc = "done"
    /\ \E a \in ProcessedObjectArrays :
          \E e1 \in ObjectElements(a) : \E e2 \in OtherElements(a) :
             \E e3 \in ObjectElements(a) : e1 < e2 /\ e2 < e3
    /\ diag # <<>>

\* --------------------------------------------------------------- C15

\* Document pre-order on places: q comes before o when q is a proper prefix
\* of o, or q is the smaller at the first position where they differ.
Before(q, o) ==
    /\ q # o
    /\ \/ Len(q) < Len(o) /\ SubSeq(o, 1, Len(q)) = q
       \/ \E i \in 1..Len(q) :
             /\ i <= Len(o)
             /\ SubSeq(q, 1, i - 1) = SubSeq(o, 1, i - 1)
             /\ q[i] < o[i]

\* In every state the row_ids of the objects in the row lists are 1..N, N
\* the number of those objects, the counter is N + 1, and the object with
\* row_id k is the k-th reached object of the document in pre-order.
RowIdsDense ==
    LET N == Cardinality(Listed)
    IN /\ { node_id[o] : o \in Listed } = 1..N
       /\ global_next_node_id = N + 1
       /\ \A o \in Listed :
             node_id[o] = 1 + Cardinality({ q \in Routed(doc, <<>>) : Before(q, o) })

\* The counter is set to 1 by the step that starts generate_schema; any
\* other step either assigns (one more object in the row lists, the counter
\* one higher) or leaves both alone.
CounterStep ==
    IF pc = "start" THEN global_next_node_id' = 1
    ELSE \/ /\ global_next_node_id' = global_next_node_id
            /\ Cardinality(Listed') = Cardinality(Listed)
         \/ /\ global_next_node_id' = global_next_node_id + 1
            /\ Cardinality(Listed') = Cardinality(Listed) + 1

\* C15: during a run the row_ids issued so far are exactly 1..N for the N
\* objects in the row lists; the counter starts at 1, goes up by exactly one
\* per assignment and is never lowered or reset within the run; the k-th
\* object assigned, in document pre-order, has row_id k.
C15_RowIdsDenseInPreOrder ==
    [](pc \in {"infer", "write", "done", "aborted"} => RowIdsDense)
    /\ [][CounterStep]_vars

\* In the middle of the traversal, three objects assigned and a call still
\* open.
C15_Witness ==
    pc = "infer" /\ stack # <<>> /\ Cardinality(Listed) = 3 /\ global_next_node_id = 4

\* --------------------------------------------------------------- C16

\* A step of process_object_node that creates a table (a miss): the table,
\* added at the end of the registry, has the columns id, then the parent's
\* name with _id if and only if a parent name is passed and is not root,
\* then the keys of the object in pair order; column_count counts them.
CreatedLayout ==
    (/\ pc = "infer" /\ stack # <<>>
     /\ Top.fn = "process_object_node" /\ Top.at = "entry"
     /\ Len(tables') = Len(tables) + 1)
    => LET t == tables'[Len(tables')]
           obj == ValueAt(doc, Top.node)
           fk == Top.parent_fk # <<>> /\ Top.parent_fk[1] # "root"
       IN /\ t.name = Top.table_name
          /\ t.columns[1] = "id"
          /\ fk => t.columns[2] = Top.parent_fk[1] \o "_id"
          /\ t.column_count = Len(obj.keys) + 1 + (IF fk THEN 1 ELSE 0)
          /\ Len(t.columns) = t.column_count
          /\ \A k \in 1..Len(obj.keys) :
                t.columns[k + 1 + (IF fk THEN 1 ELSE 0)] = obj.keys[k]

\* Within a run no step changes the name or the columns of a table that is
\* in the registry, and none removes a table.
LayoutKept ==
    pc # "start" =>
        /\ Len(tables') >= Len(tables)
        /\ \A i \in 1..Len(tables) :
              /\ tables'[i].name = tables[i].name
              /\ tables'[i].columns = tables[i].columns
              /\ tables'[i].column_count = tables[i].column_count

\* C16: a table created by find_or_create_table on a miss has the layout
\* id, then <parent_table>_id if and only if a parent table name is given
\* and is not root, then one column per field name of the creating object in
\* field order, with column_count = fields + 1 + (1 for the parent-FK
\* column); the layout of a table never changes after its creation.
C16_CreatedLayoutKept ==
    [][CreatedLayout /\ LayoutKept]_vars

\* A finished run that created a table without and a table with the
\* parent-FK column, the latter with a data column and a row.
C16_Witness ==
    /\ pc = "done"
    /\ \E i \in 1..Len(tables) : \E j \in 1..Len(tables) :
          /\ tables[i].name # "root"
          /\ RowsOf(i) # <<>>
          /\ tables[i].columns = <<"id">> \o ValueAt(doc, RowsOf(i)[Len(RowsOf(i))]).keys
          /\ tables[j].column_count >= 3
          /\ tables[j].columns[2] = tables[i].name \o "_id"
          /\ RowsOf(j) # <<>>

\* --------------------------------------------------------------- C17

\* A step of process_object_node whose candidate name is the name of a
\* table of the registry (a hit): the registry keeps its tables, their
\* names, columns and column counts, and the table the call goes on with
\* (the one whose row list gets the object) is the first of that name.
HitLeavesRegistry ==
    (/\ pc = "infer" /\ stack # <<>>
     /\ Top.fn = "process_object_node" /\ Top.at = "entry"
     /\ \E i \in 1..Len(tables) : tables[i].name = Top.table_name)
    => LET first == CHOOSE i \in 1..Len(tables) :
                       /\ tables[i].name = Top.table_name
                       /\ \A j \in 1..(i - 1) : tables[j].name # Top.table_name
       IN /\ Len(tables') = Len(tables)
          /\ table_count' = table_count /\ capacity' = capacity
          /\ \A i \in 1..Len(tables) :
                /\ tables'[i].name = tables[i].name
                /\ tables'[i].columns = tables[i].columns
                /\ tables'[i].column_count = tables[i].column_count
                /\ i # first => tables'[i].objects = tables[i].objects
          /\ stack'[Len(stack)].table = first
          /\ tables'[first].objects = Top.node

\* C17: find_or_create_table called with the name of an existing table
\* returns that table, the first of that name, and leaves the registry as
\* it was: the table count and every table's name, columns and
\* column_count, whatever keys and parent name are passed.
C17_HitLeavesRegistry ==
    [][HitLeavesRegistry]_vars

\* A finished run in which an object met two tables of its candidate name
\* and went to the first, whose columns are not the object's keys.
C17_Witness ==
    /\ pc = "done"
    /\ \E i \in 1..Len(tables) : \E r \in 1..Len(RowsOf(i)) :
          <<"id">> \o ValueAt(doc, RowsOf(i)[r]).keys # tables[i].columns
          /\ (\E j \in (i + 1)..Len(tables) : tables[j].name = tables[i].name)

\* --------------------------------------------------------------- C18

\* child_name(owner, key): key alone when the owner table is root, else
\* owner, an underscore, key.
ChildName(owner, key) == IF owner = "root" THEN key ELSE owner \o "_" \o key

\* The owner table and the key a reached object below the root or a
\* processed array is named from: the table of the object whose field holds
\* it (for an element of an array, whose field holds the array) and that
\* field's key; root and items for the root array and for its elements.
NamedFrom(p) ==
    LET up == SubSeq(p, 1, Len(p) - 1)
    IN IF p = <<>> \/ (up = <<>> /\ doc.type = "VALUE_ARRAY")
       THEN [owner |-> "root", key |-> "items"]
       ELSE IF ValueAt(doc, up).type = "VALUE_OBJECT"
       THEN [owner |-> tables[TableOf(up)].name, key |-> ValueAt(doc, up).keys[p[Len(p)]]]
       ELSE LET owner == SubSeq(up, 1, Len(up) - 1)
            IN [owner |-> tables[TableOf(owner)].name,
                key |-> ValueAt(doc, owner).keys[up[Len(up)]]]

\* C18: after inference, the table of every nested object and of every
\* element of an object array, and a junction table for every processed
\* array of scalars, is named child_name(owner, key): the key alone when
\* the owner table is root, else owner_key; a root array is named as the
\* field items of root.
C18_ChildNames ==
    Inferred =>
        /\ \A o \in Routed(doc, <<>>) \ {<<>>} :
              tables[TableOf(o)].name = ChildName(NamedFrom(o).owner, NamedFrom(o).key)
        /\ \A a \in ScalarArrays :
              \E i \in 1..Len(tables) :
                 /\ tables[i].name = ChildName(NamedFrom(a).owner, NamedFrom(a).key)
                 /\ tables[i].columns = <<NamedFrom(a).owner \o "_id", "item_index", "value">>
        /\ <<>> \in ScalarArrays \cup ProcessedObjectArrays
              => \E i \in 1..Len(tables) : tables[i].name = "items"

\* A finished run with a nested object, an array of objects and an array of
\* scalars, all three in an object whose table is not root.
C18_Witness ==
    /\ pc = "done"
    /\ \E o \in Routed(doc, <<>>) \ {<<>>} :
          /\ tables[TableOf(o)].name # "root"
          /\ \E k1 \in 1..Len(ValueAt(doc, o).vals) : Append(o, k1) \in Routed(doc, <<>>)
          /\ \E k2 \in 1..Len(ValueAt(doc, o).vals) : Append(o, k2) \in ScalarArrays
          /\ \E k3 \in 1..Len(ValueAt(doc, o).vals) : Append(o, k3) \in ProcessedObjectArrays

\* --------------------------------------------------------------- C19

\* C19: in every state during and after inference the row list of every
\* table, read from its head, has strictly decreasing row_ids, each object
\* in it coming later in the document than the next one; and the data rows
\* of every written table file are the rows of that list in list order, so
\* in the reverse of document order.
C19_RowsPrepended ==
    pc \in {"infer", "write", "done", "aborted"} =>
        \A i \in 1..Len(tables) :
            /\ \A r \in 1..(Len(RowsOf(i)) - 1) :
                  /\ node_id[RowsOf(i)[r]] > node_id[RowsOf(i)[r + 1]]
                  /\ Before(RowsOf(i)[r + 1], RowsOf(i)[r])
            /\ (tables[i].name \in DOMAIN files /\ LastOfName(i) /\ i < wi)
               => \A l \in 2..Len(files[tables[i].name]) :
                     /\ l - 1 <= Len(RowsOf(i))
                     /\ CsvFields(files[tables[i].name][l])[1]
                          = ToString(node_id[RowsOf(i)[l - 1]])

\* A finished run that wrote a table of three rows.
C19_Witness ==
    /\ pc = "done"
    /\ \E i \in 1..Len(tables) :
          /\ Len(RowsOf(i)) = 3
          /\ LastOfName(i)
          /\ Len(files[tables[i].name]) = 4

\* --------------------------------------------------------------- C20

\* The step of process_array_node on a non-empty array whose first element
\* is no object, the junction table being named by NameOf(owner, key): one
\* table is added at the end of the registry, with that name, the three
\* columns <owner>_id, item_index, value and an empty row list; the tables
\* before it, the row lists, the row_ids and the counter stay as they were,
\* and the call returns.
ScalarArrayStep(NameOf(_, _)) ==
    (/\ pc = "infer" /\ stack # <<>>
     /\ Top.fn = "process_array_node" /\ Top.at = "entry"
     /\ Len(ValueAt(doc, Top.node).vals) > 0
     /\ ValueAt(doc, Top.node).vals[1].type # "VALUE_OBJECT")
    => /\ Len(tables') = Len(tables) + 1
       /\ table_count' = table_count + 1
       /\ SubSeq(tables', 1, Len(tables)) = tables
       /\ tables'[Len(tables')].name = NameOf(Top.table_name, Top.key)
       /\ tables'[Len(tables')].column_count = 3
       /\ tables'[Len(tables')].columns = <<Top.table_name \o "_id", "item_index", "value">>
       /\ tables'[Len(tables')].objects = NULL
       /\ node_id' = node_id /\ next' = next
       /\ global_next_node_id' = global_next_node_id
       /\ Len(stack') = Len(stack) - 1

OwnerUnderscoreKey(owner, key) == owner \o "_" \o key

\* C20 as stated: processing a non-empty array whose first element is not
\* an object creates exactly one junction table, named
\* <owner_table_name>_<field_name>, with exactly the columns
\* <owner_table_name>_id, item_index, value, adds no object to a row list
\* and issues no row_id.
C20_JunctionTableCreated ==
    [][ScalarArrayStep(OwnerUnderscoreKey)]_vars

\* C20 as amended: the same, the junction table being named
\* child_name(owner, field): <field_name> alone when the owner table is
\* root (items for a root array), <owner_table_name>_<field_name> otherwise.
C20_JunctionTableCreatedChildName ==
    [][ScalarArrayStep(ChildName)]_vars

\* A finished run with the junction table of an array owned by root and
\* the junction table of an array owned by another table.
C20_Witness ==
    /\ pc = "done"
    /\ \E a \in ScalarArrays : \E i \in 1..Len(tables) :
          /\ NamedFrom(a).owner = "root"
          /\ tables[i].name = NamedFrom(a).key
          /\ tables[i].columns = <<"root_id", "item_index", "value">>
    /\ \E a \in ScalarArrays : \E i \in 1..Len(tables) :
          /\ NamedFrom(a).owner # "root"
          /\ tables[i].name = NamedFrom(a).owner \o "_" \o NamedFrom(a).key
          /\ tables[i].columns[2] = "item_index"
          /\ RowsOf(i) = <<>>

\* --------------------------------------------------------------- C21

\* A table created by process_array_node for an array of scalars: its first
\* column is <owner>_id, where every table of objects begins with id.
IsJunctionTable(table) == table.columns[1] # "id"

\* C21: in every state during and after inference the row list of every
\* table created for an array of scalars is empty, also once an object has
\* been routed to a candidate name that is the junction table's name.
C21_JunctionRowListEmpty ==
    \A i \in 1..Len(tables) : IsJunctionTable(tables[i]) => tables[i].objects = NULL

\* --------------------------------------------------------------- C22

\* The step of process_array_node on an empty array: the registry, the row
\* lists, the row_ids and the counter stay as they were, and the call
\* returns.
EmptyArrayStep ==
    (/\ pc = "infer" /\ stack # <<>>
     /\ Top.fn = "process_array_node" /\ Top.at = "entry"
     /\ Len(ValueAt(doc, Top.node).vals) = 0)
    => /\ tables' = tables
       /\ table_count' = table_count /\ capacity' = capacity
       /\ global_next_node_id' = global_next_node_id
       /\ node_id' = node_id /\ next' = next
       /\ Len(stack') = Len(stack) - 1

\* C22: processing an empty array, as the value of a field or as the root,
\* leaves the registry and the id counter as they were: no table, no row,
\* no row_id; for an empty root array the finished registry is empty.
C22_EmptyArrayNoEffect ==
    /\ [][EmptyArrayStep]_vars
    /\ []((Inferred /\ doc = Arr(<<>>)) => (tables = <<>> /\ global_next_node_id = 1))

\* A finished run over a tree in which a reached object has a field holding
\* an empty array.
C22_Witness ==
    /\ pc = "done"
    /\ \E a \in ArraysOf(doc) :
          /\ Len(ValueAt(doc, a).vals) = 0
          /\ a # <<>>
          /\ SubSeq(a, 1, Len(a) - 1) \in Routed(doc, <<>>)

\* --------------------------------------------------------------- C23

\* The set of the elements of a sequence.
Range(seq) == { seq[k] : k \in 1..Len(seq) }

\* The objects routed to a table that existed already and whose data
\* columns are not the object's field names: the table is a junction table,
\* or it was created for an object (the last of its row list) with another
\* set of field names.
DriftObjects ==
    { o \in Listed :
        LET i == TableOf(o)
        IN \/ IsJunctionTable(tables[i])
           \/ Range(ValueAt(doc, o).keys)
                # Range(ValueAt(doc, RowsOf(i)[Len(RowsOf(i))]).keys) }

\* The elements skipped in processed arrays of objects, each of which gives
\* one diagnostic.
SkippedElements ==
    UNION { { <<a, e>> : e \in OtherElements(a) } : a \in ProcessedObjectArrays }

\* C23: after inference there is one diagnostic for every object that was
\* routed to an existing table whose data columns differ from its field set
\* (besides the diagnostics for skipped array elements), each such object
\* has a row_id and is in the row list of that table, and in the written
\* file its row has an empty cell in every column that is none of its
\* fields (id and the second column apart).
C23_DriftWarned ==
    Inferred =>
        /\ Len(diag) = Cardinality(SkippedElements) + Cardinality(DriftObjects)
        /\ \A o \in DriftObjects : node_id[o] > 0 /\ Occurrences(o) = 1
        /\ pc = "done" =>
              \A i \in 1..Len(tables) : \A r \in 1..Len(RowsOf(i)) :
                  (LastOfName(i) /\ RowsOf(i)[r] \in DriftObjects) =>
                      LET f == files[tables[i].name]
                      IN /\ Len(f) >= r + 1
                         /\ Len(CsvFields(f[r + 1])) = tables[i].column_count
                         /\ \A c \in 3..tables[i].column_count :
                               tables[i].columns[c] \notin Range(ValueAt(doc, RowsOf(i)[r]).keys)
                               => CsvFields(f[r + 1])[c] = ""

\* --------------------------------------------------------------- C24

\* C24: whenever process_object_node reads the name of its table through
\* the handle find_or_create_table returned (at a pair holding an object or
\* an array), the handle points into the registry's current tables array
\* and at the table the object was added to, also after the registry has
\* grown past its initial capacity; and no table has left the registry.
C24_HandleStaysValid ==
    /\ (/\ InObjectLoop
        /\ ValueAt(doc, Top.node).vals[Top.i].type \in {"VALUE_OBJECT", "VALUE_ARRAY"})
       => /\ Top.table_cap = capacity
          /\ Top.node \in Range(RowsOf(Top.table))
    /\ pc # "crashed"
    /\ table_count = Len(tables)

\* --------------------------------------------------------------- C25

\* The object a table of objects was created for: the first one added, the
\* last of the row list.
Creator(i) == RowsOf(i)[Len(RowsOf(i))]

\* The first data column of a table of objects: the third column when the
\* table was created with a parent-FK column (for an object whose parent
\* object's table is not root), else the second; the root and the elements
\* of a root array have no parent object.
FirstDataColumn(i) ==
    LET o == Creator(i)
        up == SubSeq(o, 1, Len(o) - 1)
    IN IF o = <<>> \/ up = <<>> THEN 2
       ELSE IF tables[TableOf(ParentObject(o))].name # "root" THEN 3 ELSE 2

\* The texts a cell may hold for a field name: the text of the value of a
\* field of that name, empty when the object has none.
CellTexts(obj, name) ==
    IF name \in Range(obj.keys)
    THEN { value_to_csv_string(obj.vals[k]) : k \in { j \in 1..Len(obj.keys) : obj.keys[j] = name } }
    ELSE {""}

\* C25: in every row of the written file of a table of objects, each data
\* column (not id, not the parent-FK column) holds the text of the object's
\* value for the field of the column's name, or is empty when the object
\* has no such field; a field name beginning with _id and the field name
\* seq included.
C25_DataCellsAreFieldValues ==
    pc = "done" =>
        \A i \in 1..Len(tables) : \A r \in 1..Len(RowsOf(i)) :
            (LastOfName(i) /\ ~IsJunctionTable(tables[i])) =>
                LET f == files[tables[i].name]
                    obj == ValueAt(doc, RowsOf(i)[r])
                IN /\ Len(f) >= r + 1
                   /\ Len(CsvFields(f[r + 1])) = tables[i].column_count
                   /\ \A c \in FirstDataColumn(i)..tables[i].column_count :
                         CsvFields(f[r + 1])[c] \in CellTexts(obj, tables[i].columns[c])

\* --------------------------------------------------------------- C26

\* The program is one sequential process: a step that can be taken is
\* taken.
SpecFair == Spec /\ WF_vars(Next)

\* Every frame of the call stack is a process_object_node on an object or a
\* process_array_node on an array.
FramesFit ==
    \A k \in 1..Len(stack) :
        \/ stack[k].fn = "process_object_node" /\ stack[k].node \in ObjectsOf(doc)
        \/ stack[k].fn = "process_array_node" /\ stack[k].node \in ArraysOf(doc)

\* C26: generate_schema terminates on every tree, and during a run
\* process_object_node is called at most once for each object of the tree
\* and process_array_node at most once for each array.
C26_TerminatesEachNodeOnce ==
    /\ [](FramesFit /\ \A n \in DOMAIN calls : calls[n] <= 1)
    /\ (pc = "start") ~> (pc \notin {"start", "infer"})

\* A finished traversal of a tree with an object below the root, an array,
\* and a node that is never traversed.
C26_Witness ==
    /\ pc = "write"
    /\ \E o \in ObjectsOf(doc) : o # <<>> /\ calls[o] = 1
    /\ \E a \in ArraysOf(doc) : calls[a] = 1
    /\ \E n \in DOMAIN calls : calls[n] = 0

\* --------------------------------------------------------------- C27

\* Some table of the registry has the name a foreign-key column refers to.
NamesATable(column) == \E j \in 1..Len(tables) : tables[j].name \o "_id" = column

\* C27: in the finished registry every foreign-key column <P>_id, the first
\* column of a junction table and the second column of a table of objects
\* created with a parent, names a table P of the registry.
C27_ForeignKeysNameTables ==
    Inferred =>
        \A i \in 1..Len(tables) :
            IF IsJunctionTable(tables[i])
            THEN NamesATable(tables[i].columns[1])
            ELSE FirstDataColumn(i) = 3 => NamesATable(tables[i].columns[2])

\* --------------------------------------------------------------- C28

\* The field names on the way from the root to the value at place p, array
\* positions left out.
RECURSIVE FieldPathFrom(_, _)
FieldPathFrom(v, p) ==
    IF p = <<>> THEN <<>>
    ELSE (IF v.type = "VALUE_OBJECT" THEN <<v.keys[Head(p)]>> ELSE <<>>)
         \o FieldPathFrom(v.vals[Head(p)], Tail(p))

FieldPath(p) == FieldPathFrom(doc, p)

\* C28: two objects are rows of the same table only if they are reached
\* from the root by the same sequence of field names; objects reached by
\* different field-name paths, a/b_c and a_b/c or a field named root under
\* the root object, never share a table definition.
C28_SameTableSamePath ==
    Inferred =>
        \A i \in 1..Len(tables) : \A o1, o2 \in Range(RowsOf(i)) :
            FieldPath(o1) = FieldPath(o2)

\* --------------------------------------------------------------- C29

\* C29: in every table definition of the finished registry the column names
\* are pairwise distinct, also for an object with a field named id, a field
\* named <parent_table>_id, or the same field name twice.
C29_ColumnNamesDistinct ==
    Inferred =>
        \A i \in 1..Len(tables) : \A c1, c2 \in 1..tables[i].column_count :
            c1 # c2 => tables[i].columns[c1] # tables[i].columns[c2]

====
